---- MODULE Spec2Model ----
(***************************************************************************)
(* Model of the flower generators of busters-flowers.                      *)
(*                                                                         *)
(* The repository holds three scripts that build a flower in a host scene: *)
(*   bustersflowers.py  class Flower (three layers, automatic sculpting)   *)
(*   flowerforge.py     module functions (three layers, fixed vertices)    *)
(*   genflower.py       one function, one ring                             *)
(* The variable `module` says which script a behaviour runs.  The host     *)
(* scene (maya.cmds) is modelled by `scene`, `selection` and `nextId`:     *)
(* every creation command returns a fresh handle and selects it.           *)
(*                                                                         *)
(* Lengths are in hundredths of a scene unit (0.05 is 5, 1.4 is 140).      *)
(* An angle is the exact fraction num/den of a degree; a position is kept  *)
(* in cylinder coordinates <<rad, num, den, y>>, standing for              *)
(* (rad*cos(num/den), y, rad*sin(num/den)).                                *)
(***************************************************************************)
EXTENDS Integers, Sequences, FiniteSets, TLC

VARIABLES
    module,            \* which script runs
    entry,             \* the function the caller invoked
    pc,                \* position in the running call
    calls,             \* number of calls made so far
    base_petal_count,  \* argument of create_flower / attribute of Flower
    layer_set,         \* result of the layer resolver, <<>> before it ran
    flower_disk,       \* handle of the disk of the running call, 0 if none
    layer,             \* 0 = none, 1 = base, 2 = mid, 3 = inner
    petal,             \* handle of the petal template, 0 if none
    petal_count,       \* the arranger's n
    i,                 \* the arranger's loop index
    petal_instance,    \* handle of the duplicate being placed, 0 if none
    flower_petals,     \* the arranger's output list
    all_petals,        \* Flower.all_petals / create_flower's all_petals
    scene,             \* host scene graph: handle -> object
    selection,         \* host selection: set of handles
    nextId,            \* next fresh handle of the host
    err,               \* exception raised by the running call, "none" if none
    ret_disk,          \* returned disk handle
    ret_petals         \* returned list

vars == <<module, entry, pc, calls, base_petal_count, layer_set, flower_disk,
          layer, petal, petal_count, i, petal_instance, flower_petals,
          all_petals, scene, selection, nextId, err, ret_disk, ret_petals>>

(***************************************************************************)
(* Bounds of the model.                                                    *)
(***************************************************************************)
MaxCalls == 2          \* create_flower calls per behaviour
MaxDirectCalls == 1    \* direct calls of the resolver or of the arranger
MaxBase == 13          \* create_flower is called with 0..MaxBase (and 21)
MaxResolve == 56       \* the resolver alone is called with 0..MaxResolve
MaxN == 4              \* the arranger alone is called with n up to MaxN
MaxNeg == 2            \* ... and down to -MaxNeg

Modules == {"bustersflowers", "flowerforge", "genflower"}
Layered == {"bustersflowers", "flowerforge"}
LayerNames == <<"base", "mid", "inner">>

(***************************************************************************)
(* Program constants.                                                      *)
(***************************************************************************)
FIBONACCI_LAYER_SETS ==
    << <<3, 3, 3>>, <<5, 5, 3>>, <<8, 8, 5>>, <<13, 8, 5>>,
       <<21, 13, 8>>, <<34, 21, 13>>, <<55, 34, 21>> >>

PETAL_VERTEX_MOVES ==
    << <<10, 13, 18>>, <<20, 15, 21>>, <<40, 17, 23>>,
       <<60, 15, 24>>, <<80, 16, 18>>, <<100, 20, 0>> >>

\* The FlowerType each script uses: SUNFLOWER of bustersflowers.py and of
\* flowerforge.py, and the literals of genflower.py.
SUNFLOWER(m) ==
    CASE m = "bustersflowers" ->
           [width |-> 100, height |-> 5, depth |-> 20,
            subdiv_x |-> 8, subdiv_y |-> 1, subdiv_z |-> 1,
            radius |-> 80, petal_edge |-> 60]
      [] m = "flowerforge" ->
           [width |-> 100, height |-> 10, depth |-> 20,
            subdiv_x |-> 8, subdiv_y |-> 1, subdiv_z |-> 1,
            radius |-> 100, petal_edge |-> 140]
      [] OTHER ->
           [width |-> 80, height |-> 10, depth |-> 20,
            subdiv_x |-> 8, subdiv_y |-> 1, subdiv_z |-> 1,
            radius |-> 100, petal_edge |-> 130]

DISK_OFFSET == 8                 \* the 0.08 of Flower._create_disk
TRANSFORM_SCALE == <<70, 50, 80>>  \* cmds.scale(0.7, 0.5, 0.8, petal)
LAY_FLAT == 90                   \* cmds.rotate(90, 0, 0, petal_instance)
FULL_TURN == 360

Origin == <<0, 0, 1, 0>>
NoRotation == <<0, 0, 1>>
UnitScale == <<100, 100, 100>>

(***************************************************************************)
(* Layer resolver.                                                         *)
(***************************************************************************)
\* The loop of find_layer_set from table index k on: the first entry whose
\* base component equals base_petals, or <<>> when the loop falls through to
\* the raise.
RECURSIVE FindFrom(_, _)
FindFrom(k, base_petals) ==
    IF k > Len(FIBONACCI_LAYER_SETS) THEN <<>>
    ELSE IF FIBONACCI_LAYER_SETS[k][1] = base_petals
         THEN FIBONACCI_LAYER_SETS[k]
         ELSE FindFrom(k + 1, base_petals)

\* A resolver that compares the mid component (index 1 for index 0).
RECURSIVE FindMidFrom(_, _)
FindMidFrom(k, base_petals) ==
    IF k > Len(FIBONACCI_LAYER_SETS) THEN <<>>
    ELSE IF FIBONACCI_LAYER_SETS[k][2] = base_petals
         THEN FIBONACCI_LAYER_SETS[k]
         ELSE FindMidFrom(k + 1, base_petals)

find_layer_set_mid(base_petals) == FindMidFrom(1, base_petals)

\* A resolver that falls back to the last table entry instead of raising.
find_layer_set_fallback(base_petals) ==
    IF FindFrom(1, base_petals) = <<>>
    THEN FIBONACCI_LAYER_SETS[Len(FIBONACCI_LAYER_SETS)]
    ELSE FindFrom(1, base_petals)

find_layer_set(base_petals) == FindFrom(1, base_petals)

(***************************************************************************)
(* Petal sculptor.                                                         *)
(***************************************************************************)
\* cmds.polyEvaluate(petal, vertex=True) of a polyCube with the given
\* subdivisions: the points of the surface grid.
BoxVertexCount(sx, sy, sz) ==
    (sx + 1) * (sy + 1) * (sz + 1) - (sx - 1) * (sy - 1) * (sz - 1)

\* range(a, b) as a sequence of indices.
Range(a, b) == [k \in 1..(IF b > a THEN b - a ELSE 0) |-> a + k - 1]

get_vertex_ranges(vertex_count) ==
    [left  |-> Range(0, vertex_count \div 2),
     right |-> Range(vertex_count \div 2, vertex_count)]

MirrorZ(pos) == <<pos[1], pos[2], -pos[3]>>

\* One loop of Flower._move_vertices: the k-th vertex of `verts` (k from 0)
\* is moved to table entry k mod len, with z negated on the right side.
\* `vtx` maps each vertex index to the moves applied to it so far.
RECURSIVE MoveLoop(_, _, _, _)
MoveLoop(vtx, verts, k, side) ==
    IF k >= Len(verts) THEN vtx
    ELSE LET pos == PETAL_VERTEX_MOVES[(k % Len(PETAL_VERTEX_MOVES)) + 1]
             to  == IF side = "R" THEN MirrorZ(pos) ELSE pos
             v   == verts[k + 1]
         IN  MoveLoop([vtx EXCEPT ![v] = Append(@, to)], verts, k + 1, side)

\* Flower._move_vertices (bustersflowers.py).
move_vertices_auto(vtx, num_vertices) ==
    LET r == get_vertex_ranges(num_vertices)
    IN  MoveLoop(MoveLoop(vtx, r.left, 0, "L"), r.right, 0, "R")

\* move_vertices(petal, side, first_vertex, last_vertex) of flowerforge.py:
\* vertex j gets table entry j - first_vertex (no wrap-around).
RECURSIVE MoveFixed(_, _, _, _, _)
MoveFixed(vtx, side, first_vertex, last_vertex, j) ==
    IF j > last_vertex THEN vtx
    ELSE LET pos == PETAL_VERTEX_MOVES[(j - first_vertex) + 1]
             to  == IF side = "R" THEN MirrorZ(pos) ELSE pos
         IN  MoveFixed([vtx EXCEPT ![j] = Append(@, to)],
                       side, first_vertex, last_vertex, j + 1)

\* create_petal of flowerforge.py and the twelve literal moves of genflower.py:
\* vertices 12..17 on the left, 21..26 on the right.
move_vertices_fixed(vtx) ==
    MoveFixed(MoveFixed(vtx, "L", 12, 17, 12), "R", 21, 26, 21)

Sculpt(m, vtx, num_vertices) ==
    IF m = "bustersflowers" THEN move_vertices_auto(vtx, num_vertices)
    ELSE move_vertices_fixed(vtx)

(***************************************************************************)
(* Host scene objects.                                                     *)
(***************************************************************************)
NoVtx == [v \in {} |-> <<>>]

Obj(kind, call, sx, src, vtx) ==
    [kind |-> kind,      \* "disk", "petal" (template) or "instance"
     call |-> call,      \* the call that created it
     sx   |-> sx,        \* radial / x subdivisions
     src  |-> src,       \* the template an instance copies, else 0
     t    |-> Origin,    \* translation
     r    |-> NoRotation,  \* rotation <<rx, ry numerator, ry denominator>>
     s    |-> UnitScale,   \* scale
     vtx  |-> vtx,       \* vertex index -> moves applied (templates)
     ops  |-> <<>>]      \* the commands applied to it, in order

Put(sc, h, o) == [x \in DOMAIN sc \cup {h} |-> IF x = h THEN o ELSE sc[x]]

\* A delete that leaves the object in the scene.
DropNothing(sc, h) == sc

Drop(sc, h) == [x \in DOMAIN sc \ {h} |-> sc[x]]


\* cmds.move / rotate / scale with an explicit object (absolute values).
Moved(o, pos) == [o EXCEPT !.t = pos, !.ops = Append(@, <<"move", pos>>)]
Rotated(o, rot) == [o EXCEPT !.r = rot, !.ops = Append(@, <<"rotate", rot>>)]
Scaled(o, sc) == [o EXCEPT !.s = sc, !.ops = Append(@, <<"scale", sc>>)]

\* cmds.duplicate(petal): a copy of the template with its transform.
Duplicated(o, h, call) ==
    [o EXCEPT !.kind = "instance", !.call = call, !.src = h, !.vtx = NoVtx,
              !.ops = <<<<"duplicate", h>>>>]

\* Entries of a Python list: a handle, or a nested list of handles.
Handle(h) == [list |-> FALSE, h |-> h, items |-> <<>>]
Nested(hs) == [list |-> TRUE, h |-> 0, items |-> hs]

Wrap(hs) == [k \in 1..Len(hs) |-> Handle(hs[k])]

(***************************************************************************)
(* Initial state: an empty scene, nothing called yet.                      *)
(***************************************************************************)
Init ==
    /\ module \in Modules
    /\ entry = "none"
    /\ pc = "idle"
    /\ calls = 0
    /\ base_petal_count = 0
    /\ layer_set = <<>>
    /\ flower_disk = 0
    /\ layer = 0
    /\ petal = 0
    /\ petal_count = 0
    /\ i = 0
    /\ petal_instance = 0
    /\ flower_petals = <<>>
    /\ all_petals = <<>>
    /\ scene = [h \in {} |-> 0]
    /\ selection = {}
    /\ nextId = 1
    /\ err = "none"
    /\ ret_disk = 0
    /\ ret_petals = <<>>

Idle == pc \in {"idle", "done", "raised"}

BaseInputs == (0..MaxBase) \cup {21}
CountInputs == (0 - MaxNeg)..MaxBase
ArrangeInputs == (0 - MaxNeg)..MaxN

\* The locals of a call that is starting.
FreshFrame ==
    /\ layer_set' = <<>>
    /\ flower_disk' = 0
    /\ layer' = 0
    /\ petal' = 0
    /\ i' = 0
    /\ petal_instance' = 0
    /\ flower_petals' = <<>>
    /\ err' = "none"
    /\ ret_disk' = 0
    /\ ret_petals' = <<>>
    /\ UNCHANGED <<module, scene, selection, nextId>>

(***************************************************************************)
(* Calls.                                                                  *)
(***************************************************************************)
\* Flower(base_petal_count=b).create_flower() on a new object, or
\* flowerforge.create_flower(base_petal_count=b).
CallCreateFlower ==
    /\ Idle /\ calls < MaxCalls /\ module \in Layered
    /\ \E b \in BaseInputs : base_petal_count' = b
    /\ all_petals' = <<>>
    /\ entry' = "create_flower"
    /\ calls' = calls + 1
    /\ petal_count' = 0
    /\ pc' = "find_layer_set"
    /\ FreshFrame

\* flower.create_flower() once more on the Flower object of the last call:
\* __init__ does not run, so self.all_petals and self.base_petal_count stay.
CallAgain ==
    /\ Idle /\ calls < MaxCalls /\ calls > 0
    /\ module = "bustersflowers" /\ entry = "create_flower"
    /\ calls' = calls + 1
    /\ petal_count' = 0
    /\ pc' = "find_layer_set"
    /\ FreshFrame
    /\ UNCHANGED <<entry, base_petal_count, all_petals>>

\* genflower.create_flower(petal_count=n).
CallGenFlower ==
    /\ Idle /\ calls < MaxCalls /\ module = "genflower"
    /\ \E n \in CountInputs : petal_count' = n
    /\ entry' = "create_flower"
    /\ calls' = calls + 1
    /\ pc' = "validate"
    /\ FreshFrame
    /\ UNCHANGED <<base_petal_count, all_petals>>

\* A caller that sculpts a template and hands it to the arranger itself:
\* arrange_petals(create_petal(l), n, l).
CallArrange ==
    /\ Idle /\ calls < MaxDirectCalls /\ module \in Layered
    /\ \E n \in ArrangeInputs : petal_count' = n
    /\ \E l \in 1..3 : layer' = l
    /\ entry' = "arrange_petals"
    /\ calls' = calls + 1
    /\ pc' = "create_petal"
    /\ layer_set' = <<>> /\ flower_disk' = 0 /\ petal' = 0 /\ i' = 0
    /\ petal_instance' = 0 /\ flower_petals' = <<>> /\ err' = "none"
    /\ ret_disk' = 0 /\ ret_petals' = <<>>
    /\ UNCHANGED <<module, scene, selection, nextId, base_petal_count, all_petals>>

\* A caller of the resolver alone: find_layer_set(b).
CallFindLayerSet ==
    /\ Idle /\ calls < MaxDirectCalls /\ module \in Layered
    /\ \E b \in 0..MaxResolve : base_petal_count' = b
    /\ entry' = "find_layer_set"
    /\ calls' = calls + 1
    /\ petal_count' = 0
    /\ pc' = "find_layer_set"
    /\ FreshFrame
    /\ UNCHANGED all_petals

(***************************************************************************)
(* Steps of create_flower.                                                 *)
(***************************************************************************)
\* genflower.create_flower, lines 6-7.
Validate ==
    /\ pc = "validate"
    /\ IF petal_count <= 0
       THEN err' = "ValueError" /\ pc' = "raised"
       ELSE err' = err /\ pc' = "create_disk"
    /\ UNCHANGED <<module, entry, calls, base_petal_count, layer_set,
                   flower_disk, layer, petal, petal_count, i, petal_instance,
                   flower_petals, all_petals, scene, selection, nextId,
                   ret_disk, ret_petals>>

FindLayerSet ==
    /\ pc = "find_layer_set"
    /\ LET ls == find_layer_set(base_petal_count)
       IN  IF ls = <<>>
           THEN /\ err' = "ValueError"
                /\ pc' = "raised"
                /\ layer_set' = layer_set
           ELSE /\ err' = err
                /\ layer_set' = ls
                /\ pc' = IF entry = "find_layer_set" THEN "done"
                         ELSE "create_disk"
    /\ UNCHANGED <<module, entry, calls, base_petal_count, flower_disk, layer,
                   petal, petal_count, i, petal_instance, flower_petals,
                   all_petals, scene, selection, nextId, ret_disk, ret_petals>>

\* The disk as each script leaves it: Flower._create_disk moves it up,
\* create_disk of flowerforge.py and genflower.py leave it where it is made.
DiskOf(m, call, sx) ==
    LET d == Obj("disk", call, sx, 0, NoVtx)
    IN  IF m = "bustersflowers"
        THEN Moved(d, <<0, 0, 1, SUNFLOWER(m).height + DISK_OFFSET>>)
        ELSE d

CreateDisk ==
    /\ pc = "create_disk"
    /\ LET sx == IF module = "genflower" THEN petal_count
                 ELSE base_petal_count
       IN  scene' = Put(scene, nextId, DiskOf(module, calls, sx))
    /\ selection' = {nextId}
    /\ flower_disk' = nextId
    /\ nextId' = nextId + 1
    /\ layer' = IF module \in Layered THEN 1 ELSE layer
    /\ pc' = "create_petal"
    /\ UNCHANGED <<module, entry, calls, base_petal_count, layer_set, petal,
                   petal_count, i, petal_instance, flower_petals, all_petals,
                   err, ret_disk, ret_petals>>

\* create_petal / Flower._create_petal: the box and its sculpting.
PetalOf(m, call) ==
    LET ft == SUNFLOWER(m)
        num_vertices == BoxVertexCount(ft.subdiv_x, ft.subdiv_y, ft.subdiv_z)
        flat == [v \in 0..(num_vertices - 1) |-> <<>>]
    IN  Obj("petal", call, ft.subdiv_x, 0, Sculpt(m, flat, num_vertices))

CreatePetal ==
    /\ pc = "create_petal"
    /\ scene' = Put(scene, nextId, PetalOf(module, calls))
    /\ selection' = IF module = "genflower" THEN {} ELSE {nextId}
    /\ petal' = nextId
    /\ nextId' = nextId + 1
    /\ pc' = "arrange"
    /\ UNCHANGED <<module, entry, calls, base_petal_count, layer_set,
                   flower_disk, layer, petal_count, i, petal_instance,
                   flower_petals, all_petals, err, ret_disk, ret_petals>>

(***************************************************************************)
(* Ring arranger: arrange_petals / Flower._arrange_petals and the loop of  *)
(* genflower.create_flower.                                                *)
(***************************************************************************)
\* angle = i * rotation_increment, rotation_increment = 360 / petal_count,
\* as the exact fraction (k * 360) / n of a degree.
Angle(k, n) == <<k * FULL_TURN, n>>

\* The first rotation of a duplicate: rotate(90, 0, 0) in flowerforge.py and
\* genflower.py, rotate(0, -angle, 0) in bustersflowers.py (line 224).
FirstRotation(m, k, n) ==
    IF m = "bustersflowers" THEN <<0, 0 - Angle(k, n)[1], Angle(k, n)[2]>>
    ELSE <<LAY_FLAT, 0, 1>>

\* rotate(0, -angle, 0) after the move (flowerforge.py, genflower.py).
AlignRotation(k, n) == <<0, 0 - Angle(k, n)[1], Angle(k, n)[2]>>

\* (radius*cos(angle), 0, radius*sin(angle)).
RingPosition(m, k, n) ==
    <<SUNFLOWER(m).petal_edge, Angle(k, n)[1], Angle(k, n)[2], 0>>

\* Whether arrange_petals of flowerforge.py calls transform_petal for a layer.
Transforms(m, l) ==
    /\ m = "flowerforge"
    /\ l \in 1..3
    /\ LayerNames[l] \in {"inner", "mid"}

\* The step that follows the move of a duplicate.
AfterMove(m) == IF m = "bustersflowers" THEN "append" ELSE "align"

\* The first loop index of range(petal_count).
FirstIndex == 0

\* A loop that stops one index early.
InRangeShort(k, n) == k + 1 < n

\* Whether range(petal_count) still yields index k.
InRange(k, n) == k < n

ArrangeBegin ==
    /\ pc = "arrange"
    /\ LET n == IF module \in Layered /\ entry = "create_flower"
                THEN layer_set[layer] ELSE petal_count
       IN  /\ petal_count' = n
           /\ flower_petals' = <<>>
           /\ IF n = 0
              THEN err' = "ZeroDivisionError" /\ pc' = "raised" /\ i' = i
              ELSE err' = err /\ pc' = "loop" /\ i' = FirstIndex
    /\ UNCHANGED <<module, entry, calls, base_petal_count, layer_set,
                   flower_disk, layer, petal, petal_instance, all_petals,
                   scene, selection, nextId, ret_disk, ret_petals>>

Duplicate ==
    /\ pc = "loop" /\ InRange(i, petal_count)
    /\ scene' = Put(scene, nextId, Duplicated(scene[petal], petal, calls))
    /\ selection' = {nextId}
    /\ petal_instance' = nextId
    /\ nextId' = nextId + 1
    /\ pc' = "rotate"
    /\ UNCHANGED <<module, entry, calls, base_petal_count, layer_set,
                   flower_disk, layer, petal, petal_count, i, flower_petals,
                   all_petals, err, ret_disk, ret_petals>>

RotateFirst ==
    /\ pc = "rotate"
    /\ scene' = [scene EXCEPT ![petal_instance] =
                    Rotated(@, FirstRotation(module, i, petal_count))]
    /\ pc' = IF Transforms(module, layer) THEN "transform" ELSE "move"
    /\ UNCHANGED <<module, entry, calls, base_petal_count, layer_set,
                   flower_disk, layer, petal, petal_count, i, petal_instance,
                   flower_petals, all_petals, selection, nextId, err,
                   ret_disk, ret_petals>>

\* transform_petal(petal) of flowerforge.py, lines 181-184: the argument is
\* the template, not the duplicate.
TransformPetal ==
    /\ pc = "transform"
    /\ scene' = [scene EXCEPT ![petal] = Scaled(@, TRANSFORM_SCALE)]
    /\ pc' = "move"
    /\ UNCHANGED <<module, entry, calls, base_petal_count, layer_set,
                   flower_disk, layer, petal, petal_count, i, petal_instance,
                   flower_petals, all_petals, selection, nextId, err,
                   ret_disk, ret_petals>>

MovePetal ==
    /\ pc = "move"
    /\ scene' = [scene EXCEPT ![petal_instance] =
                    Moved(@, RingPosition(module, i, petal_count))]
    /\ pc' = AfterMove(module)
    /\ UNCHANGED <<module, entry, calls, base_petal_count, layer_set,
                   flower_disk, layer, petal, petal_count, i, petal_instance,
                   flower_petals, all_petals, selection, nextId, err,
                   ret_disk, ret_petals>>

RotateAlign ==
    /\ pc = "align"
    /\ scene' = [scene EXCEPT ![petal_instance] =
                    Rotated(@, AlignRotation(i, petal_count))]
    /\ pc' = "append"
    /\ UNCHANGED <<module, entry, calls, base_petal_count, layer_set,
                   flower_disk, layer, petal, petal_count, i, petal_instance,
                   flower_petals, all_petals, selection, nextId, err,
                   ret_disk, ret_petals>>

AppendPetal ==
    /\ pc = "append"
    /\ flower_petals' = Append(flower_petals, petal_instance)
    /\ i' = i + 1
    /\ pc' = "loop"
    /\ UNCHANGED <<module, entry, calls, base_petal_count, layer_set,
                   flower_disk, layer, petal, petal_count, petal_instance,
                   all_petals, scene, selection, nextId, err, ret_disk,
                   ret_petals>>

\* Whether the loop is over, so that cmds.delete(petal) runs.
LoopDone(k, n) == ~InRange(k, n)

DeleteTemplate ==
    /\ pc = "loop" /\ LoopDone(i, petal_count)
    /\ scene' = Drop(scene, petal)
    /\ selection' = selection \ {petal}
    /\ pc' = IF module = "genflower" THEN "return" ELSE "clear_selection"
    /\ UNCHANGED <<module, entry, calls, base_petal_count, layer_set,
                   flower_disk, layer, petal, petal_count, i, petal_instance,
                   flower_petals, all_petals, nextId, err, ret_disk,
                   ret_petals>>

ClearSelection ==
    /\ pc = "clear_selection"
    /\ selection' = {}
    /\ pc' = IF entry = "create_flower" THEN "collect" ELSE "return"
    /\ UNCHANGED <<module, entry, calls, base_petal_count, layer_set,
                   flower_disk, layer, petal, petal_count, i, petal_instance,
                   flower_petals, all_petals, scene, nextId, err, ret_disk,
                   ret_petals>>

\* How create_flower adds a ring to all_petals: self.all_petals.extend(...)
\* in bustersflowers.py, all_petals.append(...) in flowerforge.py.
Collected(m, all, ring) ==
    IF m = "bustersflowers" THEN all \o Wrap(ring)
    ELSE Append(all, Nested(ring))

Collect ==
    /\ pc = "collect"
    /\ all_petals' = Collected(module, all_petals, flower_petals)
    /\ IF layer < 3
       THEN layer' = layer + 1 /\ pc' = "create_petal"
       ELSE layer' = layer /\ pc' = "return"
    /\ UNCHANGED <<module, entry, calls, base_petal_count, layer_set,
                   flower_disk, petal, petal_count, i, petal_instance,
                   flower_petals, scene, selection, nextId, err, ret_disk,
                   ret_petals>>

Return ==
    /\ pc = "return"
    /\ ret_disk' = flower_disk
    /\ ret_petals' = IF module \in Layered /\ entry = "create_flower"
                     THEN all_petals ELSE Wrap(flower_petals)
    /\ pc' = "done"
    /\ UNCHANGED <<module, entry, calls, base_petal_count, layer_set,
                   flower_disk, layer, petal, petal_count, i, petal_instance,
                   flower_petals, all_petals, scene, selection, nextId, err>>

(***************************************************************************)
(* Specifications.                                                         *)
(***************************************************************************)
Arranger ==
    \/ ArrangeBegin \/ Duplicate \/ RotateFirst \/ TransformPetal
    \/ MovePetal \/ RotateAlign \/ AppendPetal \/ DeleteTemplate
    \/ ClearSelection

\* create_flower of the three scripts, called up to MaxCalls times.
Next ==
    \/ CallCreateFlower \/ CallAgain \/ CallGenFlower
    \/ Validate \/ FindLayerSet \/ CreateDisk \/ CreatePetal
    \/ Arranger \/ Collect \/ Return

Spec == Init /\ [][Next]_vars

\* The ring arranger called with any n: arrange_petals directly, and the
\* loop of genflower.create_flower behind its validation.
NextArrange ==
    \/ CallArrange \/ CallGenFlower
    \/ Validate \/ CreateDisk \/ CreatePetal
    \/ Arranger \/ Return

SpecArrange == Init /\ [][NextArrange]_vars

\* The layer resolver called alone.
InitResolve == Init /\ module \in Layered

NextResolve == CallFindLayerSet \/ FindLayerSet

SpecResolve == InitResolve /\ [][NextResolve]_vars

(***************************************************************************)
(* Claims.                                                                 *)
(***************************************************************************)
Finished == pc \in {"done", "raised"}

InTable(b) == \E k \in 1..Len(FIBONACCI_LAYER_SETS) : FIBONACCI_LAYER_SETS[k][1] = b

\* The first table position whose base component is b.
FirstMatch(b, k) ==
    /\ FIBONACCI_LAYER_SETS[k][1] = b
    /\ \A j \in 1..(k - 1) : FIBONACCI_LAYER_SETS[j][1] # b

\* C1: for every base count b that is the base component of a table entry,
\* the resolver returns (without raising) the first entry, in table order,
\* whose base component is b; the first element of the returned triple is b.
C1_ResolverReturnsFirstMatch ==
    (entry = "find_layer_set" /\ Finished /\ InTable(base_petal_count)) =>
        /\ pc = "done" /\ err = "none"
        /\ Len(layer_set) = 3
        /\ layer_set[1] = base_petal_count
        /\ \E k \in 1..Len(FIBONACCI_LAYER_SETS) :
              FirstMatch(base_petal_count, k) /\ layer_set = FIBONACCI_LAYER_SETS[k]

C1_Witness ==
    /\ entry = "find_layer_set" /\ pc = "done"
    /\ base_petal_count = 13 /\ layer_set = <<13, 8, 5>>

\* C2: for every base count b that is the base component of no table entry,
\* the resolver raises its error (ValueError, the ConfigurationError of the
\* specification) and returns no triple: nothing is interpolated.
C2_ResolverRaisesOnUnknown ==
    (entry = "find_layer_set" /\ Finished /\ ~InTable(base_petal_count)) =>
        /\ pc = "raised" /\ err = "ValueError"
        /\ layer_set = <<>>

C2_Witness ==
    /\ entry = "find_layer_set" /\ pc = "raised"
    /\ base_petal_count = 4 /\ err = "ValueError" /\ layer_set = <<>>

\* The ring the arranger returned, as handles.
Returned(k) == ret_petals[k].h

ArrangerCall ==
    \/ entry = "arrange_petals"
    \/ entry = "create_flower" /\ module = "genflower"

\* C3: for every n >= 1 the arranger returns exactly n handles, each a
\* duplicate of the template, in creation order, and the handle at position
\* i (from 0) was placed with angle i * (360 / n): ascending angles from 0.
C3_ArrangerReturnsRing ==
    (ArrangerCall /\ Finished /\ petal_count >= 1) =>
        /\ pc = "done" /\ err = "none"
        /\ Len(ret_petals) = petal_count
        /\ \A k \in 1..Len(ret_petals) :
              /\ ~ret_petals[k].list
              /\ Returned(k) \in DOMAIN scene
              /\ scene[Returned(k)].kind = "instance"
              /\ scene[Returned(k)].src = petal
              /\ scene[Returned(k)].t[1] = SUNFLOWER(module).petal_edge
              /\ scene[Returned(k)].t[4] = 0
              \* the angle num/den equals (k-1) * 360 / n
              /\ scene[Returned(k)].t[2] * petal_count
                    = (k - 1) * 360 * scene[Returned(k)].t[3]
              /\ scene[Returned(k)].t[3] > 0
              /\ k > 1 => /\ Returned(k - 1) < Returned(k)
                          /\ scene[Returned(k - 1)].t[2] * scene[Returned(k)].t[3]
                               < scene[Returned(k)].t[2] * scene[Returned(k - 1)].t[3]

C3_Witness ==
    /\ entry = "arrange_petals" /\ pc = "done"
    /\ petal_count = 3 /\ Len(ret_petals) = 3
    /\ scene[Returned(3)].t = <<SUNFLOWER(module).petal_edge, 720, 3, 0>>

\* C4: the arranger called with n = 0 or with a negative n raises its
\* input-validation error (ValueError, the InvalidArgument of the
\* specification): it returns no list and raises no other error.
C4_ArrangerRejectsNonPositive ==
    (ArrangerCall /\ Finished /\ petal_count <= 0) =>
        pc = "raised" /\ err = "ValueError"

\* C5: every create_flower call of the layered scripts returns a flat list of
\* exactly base + mid + inner handles: the base ring, then the mid ring, then
\* the inner ring, no nesting, no handle created by an earlier call.
C5_FlatListOfAllPetals ==
    (module \in Layered /\ entry = "create_flower" /\ pc = "done") =>
        /\ Len(ret_petals) = layer_set[1] + layer_set[2] + layer_set[3]
        /\ \A k \in 1..Len(ret_petals) :
              /\ ~ret_petals[k].list
              /\ Returned(k) \in DOMAIN scene
              /\ scene[Returned(k)].kind = "instance"
              /\ scene[Returned(k)].call = calls
              /\ k > 1 => Returned(k - 1) < Returned(k)

\* C6: each create_flower call of the layered scripts creates exactly one disk, before any petal
\* template, with as many radial subdivisions as the base petal count, and
\* returns it translated to (0, height + 0.08, 0).
C6_OneDiskRaised ==
    LET mine == {h \in DOMAIN scene : scene[h].call = calls}
        disks == {h \in mine : scene[h].kind = "disk"}
    IN  /\ (module \in Layered /\ entry = "create_flower" /\ ~Finished) =>
            /\ Cardinality(disks) <= 1
            /\ \A h \in mine \ disks : \E d \in disks : d < h
        /\ (module \in Layered /\ entry = "create_flower" /\ pc = "done") =>
            /\ disks = {ret_disk}
            /\ scene[ret_disk].sx = base_petal_count
            /\ scene[ret_disk].t[1] = 0
            /\ scene[ret_disk].t[4] = SUNFLOWER(module).height + DISK_OFFSET

\* The move the sculptor of the specification gives vertex v of `count`.
HalfMove(v, count) ==
    LET half == count \div 2
    IN  IF v < half
        THEN PETAL_VERTEX_MOVES[(v % Len(PETAL_VERTEX_MOVES)) + 1]
        ELSE MirrorZ(PETAL_VERTEX_MOVES[((v - half) % Len(PETAL_VERTEX_MOVES)) + 1])

\* C7: the sculptor works on two contiguous index halves: vertex i of the
\* left half [0, count/2) is moved by offsetTable[i mod len], vertex i of the
\* right half [count/2, count) by the same entry with z negated, and every
\* vertex of the box is moved exactly once.
C7_MirrorHalves ==
    \A h \in DOMAIN scene :
        (module \in Layered /\ scene[h].kind = "petal") =>
            LET count == Cardinality(DOMAIN scene[h].vtx)
            IN  \A v \in DOMAIN scene[h].vtx :
                    scene[h].vtx[v] = <<HalfMove(v, count)>>

Templates == {h \in DOMAIN scene : scene[h].kind = "petal"}
Instances == {h \in DOMAIN scene : scene[h].kind = "instance"}

TemplateLive ==
    pc \in {"arrange", "loop", "rotate", "transform", "move", "align", "append"}

\* C8: a petal template is transient: it is there only while its own layer
\* is arranged (so it is gone before the next template is made), it is
\* destroyed only after all n duplicates of its layer exist, no list holds
\* its handle, and when create_flower returns the scene holds no template,
\* only disks and petal instances.
C8_TemplateTransient ==
    entry = "create_flower" =>
        /\ Templates \subseteq {petal}
        /\ Templates # {} => TemplateLive
        /\ (petal # 0 /\ petal \notin DOMAIN scene) =>
              /\ Len(flower_petals) = petal_count
              /\ \A k \in 1..Len(flower_petals) :
                    /\ flower_petals[k] \in Instances
                    /\ scene[flower_petals[k]].src = petal
        /\ \A k \in 1..Len(flower_petals) : flower_petals[k] \in Instances
        /\ \A k \in 1..Len(ret_petals) :
              IF ret_petals[k].list
              THEN \A j \in 1..Len(ret_petals[k].items) :
                       ret_petals[k].items[j] \in Instances
              ELSE ret_petals[k].h \in Instances
        /\ pc = "done" =>
              /\ Templates = {}
              /\ petal # 0 /\ petal \notin DOMAIN scene
              /\ \A h \in DOMAIN scene : scene[h].kind \in {"disk", "instance"}

C8_Witness ==
    /\ entry = "create_flower" /\ pc = "done" /\ calls = 2
    /\ module = "flowerforge" /\ base_petal_count = 5
    /\ Len(ret_petals) = 3 /\ Len(ret_petals[3].items) = 3
    /\ Templates = {}

\* The names of the commands applied to an object, in order.
OpNames(h) == [k \in 1..Len(scene[h].ops) |-> scene[h].ops[k][1]]

\* C9: every instance that is appended went through, in this order:
\* duplicate, the fixed lay-flat rotation, the translation to
\* (radius*cos(angle), 0, radius*sin(angle)), then the rotation by -angle
\* about the vertical axis.
C9_FourStepsInOrder ==
    module \in Layered =>
    \A k \in 1..Len(flower_petals) :
        LET h == flower_petals[k]
            ops == scene[h].ops
        IN  /\ OpNames(h) = <<"duplicate", "rotate", "move", "rotate">>
            /\ ops[2][2] = <<LAY_FLAT, 0, 1>>
            /\ ops[3][2] = <<SUNFLOWER(module).petal_edge, (k - 1) * 360, petal_count, 0>>
            /\ ops[4][2] = <<0, 0 - (k - 1) * 360, petal_count>>

\* C10: petals are identical across layers: no scale command is ever applied
\* to a template or an instance, and all petal instances of one call (the
\* first and the last of a ring included) have one size and one ring radius.
C10_NoScaleSameSize ==
    module \in Layered =>
    /\ \A h \in DOMAIN scene :
          \A k \in 1..Len(scene[h].ops) : scene[h].ops[k][1] # "scale"
    /\ \A g, h \in Instances :
          scene[g].call = scene[h].call =>
              /\ scene[g].s = scene[h].s
              /\ (scene[g].t # Origin /\ scene[h].t # Origin) =>
                    scene[g].t[1] = scene[h].t[1]

\* The points at which a ring arrangement of create_flower has finished.
RingArranged == pc \in {"collect", "return", "done"}

\* C11: the host selection is cleared after each ring is arranged: whenever a
\* ring arrangement of create_flower has finished, and so when create_flower
\* returns, the selection is empty; the sculpting of the next layer starts
\* with an empty selection.
C11_SelectionClearedAfterRing ==
    entry = "create_flower" =>
        /\ RingArranged => selection = {}
        /\ (pc = "create_petal" /\ layer > 1) => selection = {}

====
